---- MODULE Spec2Model ----
(***************************************************************************)
(* The playlist tracker of src/app.py: a Streamlit script that, on every   *)
(* run, fetches one remote playlist (get_playlist_data, cached for an      *)
(* hour), and appends one record per calendar day to two CSV tables        *)
(* (update_daily_stats): playlist_history.csv and                          *)
(* track_popularity_history.csv.                                           *)
(*                                                                         *)
(* A DataFrame is a record [columns, rows]: the sequence of column names   *)
(* and the sequence of rows, each row a function from the column names to  *)
(* values. A missing value is NaN. A pandas Timestamp is a record          *)
(* [date, tod] (calendar day and time of day); the text of a date in a CSV *)
(* file is the tuple of its printed components.                            *)
(***************************************************************************)
EXTENDS Integers, Sequences, FiniteSets, TLC

VARIABLES
    now,            \* the calendar date of the process's local clock
    cache,          \* st.cache_data entry of get_playlist_data: <<>> or <<value>>,
                    \* with the date it was fetched on
    histFile,       \* playlist_history.csv
    trackFile,      \* track_popularity_history.csv
    pc,             \* per script run: where the run of main() stands
    fault,          \* per script run: the provider request that failed in it
    playlist_info,  \* main's local playlist_info
    tracks_df,      \* main's local tracks_df
    today,          \* update_daily_stats' local today
    hist_df,        \* update_daily_stats' local hist_df
    track_hist_df,  \* update_daily_stats' local track_hist_df
    probe           \* input and result of one call of the fetch loop and normalizer

vars == <<now, cache, histFile, trackFile, pc, fault, playlist_info, tracks_df,
          today, hist_df, track_hist_df, probe>>

files == <<histFile, trackFile>>
locals == <<playlist_info, tracks_df, today, hist_df, track_hist_df>>

----------------------------------------------------------------------------
(* Bounds of the model                                                     *)

MaxDate == 2
MaxPages == 2
MaxPageLen == 2

Dates == 1..MaxDate
TimesOfDay == {0, 1}
Procs == {1, 2}
Followers == {10, 20}

NaN == "NaN"

----------------------------------------------------------------------------
(* The remote provider                                                     *)

TrackA ==
    [id |-> "a", name |-> "Song A", artists |-> <<[name |-> "X"], [name |-> "Y"]>>,
     album |-> [name |-> "Album A", release_date |-> "2020"],
     popularity |-> 40, duration_ms |-> 1000, preview_url |-> "None",
     external_urls |-> [spotify |-> "url-a"]]

\* A track whose title is the text N/A.
TrackB ==
    [id |-> "b", name |-> "N/A", artists |-> <<[name |-> "Z"]>>,
     album |-> [name |-> "Album B", release_date |-> "2021-05"],
     popularity |-> 70, duration_ms |-> 2000, preview_url |-> "prev-b",
     external_urls |-> [spotify |-> "url-b"]]

\* A raw playlist item: its track is <<>> (a removed track, None) or <<track>>.
NoTrack == [track |-> <<>>]
ItemA == [track |-> <<TrackA>>]
ItemB == [track |-> <<TrackB>>]
RawItems == {NoTrack, ItemA, ItemB}

\* The pages of at most MaxPageLen items, and the playlists of n pages.
PageItems == UNION {[1..k -> RawItems] : k \in 0..MaxPageLen}
Playlists(n) == [1..n -> PageItems]

\* The provider's pages of a playlist: each carries its items and the pointer to
\* the next page (0: no further page).
LinkedPages(itemSeqs) ==
    [i \in 1..Len(itemSeqs) |->
        [items |-> itemSeqs[i], next |-> IF i < Len(itemSeqs) THEN i + 1 ELSE 0]]

\* The client _sp: the playlist's metadata, its pages, and the request that
\* fails: <<>> for none, <<0>> for the metadata request, <<k>> for the k-th page
\* request.
Provider(followers, itemSeqs, failAt) ==
    [playlist |-> [followers |-> [total |-> followers]],
     pages |-> LinkedPages(itemSeqs),
     failAt |-> failAt]

FailPoints(itemSeqs) == {<<>>} \cup {<<k>> : k \in 0..Len(itemSeqs)}

\* The playlists the accumulator specifications fetch: two pages with a removed
\* track between two tracks, one page with the same track twice, a playlist
\* whose only item is a removed track.
StorePlaylists ==
    { <<<<ItemA>>, <<NoTrack, ItemB>>>>, <<<<ItemA, ItemA>>>>, <<<<NoTrack>>>> }

----------------------------------------------------------------------------
(* DataFrames                                                              *)

Range(s) == {s[i] : i \in 1..Len(s)}

DataFrame(columns, rows) == [columns |-> columns, rows |-> rows]

\* pd.DataFrame(list of dicts): the columns are the keys of the dicts; no dict,
\* no column.
FrameOfDicts(keys, dicts) ==
    IF dicts = <<>> THEN DataFrame(<<>>, <<>>) ELSE DataFrame(keys, dicts)

IsEmpty(df) == df.rows = <<>>

PadRow(row, columns) ==
    [c \in Range(columns) |-> IF c \in DOMAIN row THEN row[c] ELSE NaN]

PadRows(rows, columns) == [i \in 1..Len(rows) |-> PadRow(rows[i], columns)]

\* Concat with b's rows placed before a's.
ConcatReversed(a, b) ==
    LET New(c) == c \notin Range(a.columns)
        columns == a.columns \o SelectSeq(b.columns, New)
    IN  DataFrame(columns, PadRows(b.rows, columns) \o PadRows(a.rows, columns))

\* pd.concat([a, b], ignore_index=True): the union of the columns, a's first,
\* and a's rows followed by b's, a value missing from a row being NaN.
Concat(a, b) ==
    LET New(c) == c \notin Range(a.columns)
        columns == a.columns \o SelectSeq(b.columns, New)
    IN  DataFrame(columns, PadRows(a.rows, columns) \o PadRows(b.rows, columns))

\* df[[c1, ..]]: the listed columns; a KeyError when one is missing.
HasColumns(df, columns) == Range(columns) \subseteq Range(df.columns)
Project(df, columns) ==
    DataFrame(columns,
              [i \in 1..Len(df.rows) |-> [c \in Range(columns) |-> df.rows[i][c]]])

----------------------------------------------------------------------------
(* Timestamps and the CSV files                                            *)

Timestamp(date, tod) == [date |-> date, tod |-> tod]

\* Normalize without the truncation: the time of day is kept.
NormalizeOmitted(ts) == ts

\* Timestamp.normalize(): midnight of the same day.
Normalize(ts) == Timestamp(ts.date, 0)

\* The text of a timestamp in a CSV file: the date alone at midnight.
FormatDate(ts) == IF ts.tod = 0 THEN <<ts.date>> ELSE <<ts.date, ts.tod>>

\* read_csv(parse_dates=['date']) on that text.
ParseDate(text) == Timestamp(text[1], IF Len(text) = 2 THEN text[2] ELSE 0)

\* The columns of text. to_csv writes a missing value as the empty text
\* (na_rep=''); read_csv reads the empty text and its other NA markers
\* (keep_default_na) as a missing value.
TextColumns == {"track_id", "track_name", "name"}
NaStrings == {"", "#N/A", "N/A", "NA", "NULL", "NaN", "None", "n/a", "nan", "null"}

FormatText(value) == IF value = NaN THEN "" ELSE value
ParseText(text) == IF text \in NaStrings THEN NaN ELSE text

FormatTexts(rows) ==
    [i \in 1..Len(rows) |->
        [c \in DOMAIN rows[i] |->
            IF c \in TextColumns THEN FormatText(rows[i][c]) ELSE rows[i][c]]]

ParseTexts(rows) ==
    [i \in 1..Len(rows) |->
        [c \in DOMAIN rows[i] |->
            IF c \in TextColumns THEN ParseText(rows[i][c]) ELSE rows[i][c]]]

FormatDates(rows) ==
    [i \in 1..Len(rows) |-> [rows[i] EXCEPT !["date"] = FormatDate(rows[i]["date"])]]

ParseDates(rows) ==
    [i \in 1..Len(rows) |-> [rows[i] EXCEPT !["date"] = ParseDate(rows[i]["date"])]]

NoFile == [exists |-> FALSE, columns |-> <<>>, rows |-> <<>>]

\* df.to_csv(path, index=False): the whole file is replaced by a header row and
\* one row per record.
to_csv(df) ==
    [exists |-> TRUE, columns |-> df.columns, rows |-> FormatTexts(FormatDates(df.rows))]

read_csv(file) == DataFrame(file.columns, ParseTexts(ParseDates(file.rows)))

HistColumns == <<"date", "saves", "total_tracks", "avg_popularity">>
TrackHistColumns == <<"date", "track_id", "track_name", "artist", "popularity">>

\* load_historical_data never finding the file save_historical_data wrote.
LoadHistoricalDataMissing(file) == DataFrame(HistColumns, <<>>)

load_historical_data(file) ==
    IF file.exists THEN read_csv(file) ELSE DataFrame(HistColumns, <<>>)

\* save_historical_data writing the new record alone (new_row for hist_df).
SaveHistoricalDataNewRow(df) ==
    to_csv(DataFrame(df.columns, SubSeq(df.rows, Len(df.rows), Len(df.rows))))

save_historical_data(df) == to_csv(df)

load_track_history(file) ==
    IF file.exists THEN read_csv(file) ELSE DataFrame(TrackHistColumns, <<>>)

save_track_history(df) == to_csv(df)

----------------------------------------------------------------------------
(* get_playlist_data: the pagination loop and the normalizer               *)

Fails(sp, k) == sp.failAt = <<k>>

Raised(requests) ==
    [ok |-> FALSE, tracks |-> <<>>, requests |-> requests]

\* NextLoop ending the loop at a failed request with the pages fetched so far.
RECURSIVE NextLoopMasking(_, _, _, _)
NextLoopMasking(sp, results, tracks, requests) ==
    IF results.next = 0 \/ Fails(sp, requests + 1)
    THEN [ok |-> TRUE, tracks |-> tracks, requests |-> requests]
    ELSE LET following == sp.pages[results.next]
         IN  NextLoopMasking(sp, following, tracks \o following.items, requests + 1)

\* while results['next']: results = _sp.next(results); tracks.extend(..)
RECURSIVE NextLoop(_, _, _, _)
NextLoop(sp, results, tracks, requests) ==
    IF results.next = 0
    THEN [ok |-> TRUE, tracks |-> tracks, requests |-> requests]
    ELSE IF Fails(sp, requests + 1)
         THEN Raised(requests + 1)
         ELSE LET following == sp.pages[results.next]
              IN  NextLoop(sp, following, tracks \o following.items, requests + 1)

\* FetchAllTracks without the loop: the first page only.
FetchFirstPage(sp) ==
    IF Fails(sp, 1)
    THEN Raised(1)
    ELSE [ok |-> TRUE, tracks |-> sp.pages[1].items, requests |-> 1]

\* tracks = []; results = _sp.playlist_tracks(..); tracks.extend(..); the loop
FetchAllTracks(sp) ==
    IF Fails(sp, 1)
    THEN Raised(1)
    ELSE LET results == sp.pages[1]
         IN  NextLoop(sp, results, results.items, 1)

\* ', '.join(names): the display string, as the sequence of its pieces
RECURSIVE Join(_, _)
Join(sep, names) ==
    IF names = <<>> THEN <<>>
    ELSE IF Len(names) = 1 THEN <<names[1]>>
    ELSE <<names[1], sep>> \o Join(sep, Tail(names))

ArtistNames(track) == [i \in 1..Len(track.artists) |-> track.artists[i].name]

TrackColumns ==
    <<"track_id", "name", "artist", "album", "popularity", "duration_ms",
      "release_date", "preview_url", "external_url">>

TrackRow(track) ==
    [track_id |-> track.id,
     name |-> track.name,
     artist |-> Join(", ", ArtistNames(track)),
     album |-> track.album.name,
     popularity |-> track.popularity,
     duration_ms |-> track.duration_ms,
     release_date |-> track.album.release_date,
     preview_url |-> track.preview_url,
     external_url |-> track.external_urls.spotify]

\* TrackData leaving the loop at the first item without a track.
RECURSIVE TrackDataStopAtAbsent(_)
TrackDataStopAtAbsent(tracks) ==
    IF tracks = <<>> \/ Head(tracks).track = <<>> THEN <<>>
    ELSE <<TrackRow(Head(tracks).track[1])>> \o TrackDataStopAtAbsent(Tail(tracks))

\* for item in tracks: track = item['track']; if track: track_data.append(..)
RECURSIVE TrackData(_)
TrackData(tracks) ==
    IF tracks = <<>> THEN <<>>
    ELSE LET track == Head(tracks).track
         IN  (IF track # <<>> THEN <<TrackRow(track[1])>> ELSE <<>>)
             \o TrackData(Tail(tracks))

NoPlaylist == [followers |-> [total |-> 0]]
NoFrame == DataFrame(<<>>, <<>>)

get_playlist_data(sp) ==
    IF Fails(sp, 0)
    THEN [ok |-> FALSE, playlist |-> NoPlaylist, tracks_df |-> NoFrame,
          raw |-> <<>>, requests |-> 0]
    ELSE LET fetched == FetchAllTracks(sp)
         IN  IF ~fetched.ok
             THEN [ok |-> FALSE, playlist |-> NoPlaylist, tracks_df |-> NoFrame,
                   raw |-> <<>>, requests |-> fetched.requests]
             ELSE [ok |-> TRUE, playlist |-> sp.playlist,
                   tracks_df |-> FrameOfDicts(TrackColumns, TrackData(fetched.tracks)),
                   raw |-> fetched.tracks, requests |-> fetched.requests]

----------------------------------------------------------------------------
(* update_daily_stats                                                      *)

RECURSIVE Sum(_)
Sum(values) == IF values = <<>> THEN 0 ELSE Head(values) + Sum(Tail(values))

Column(df, c) == [i \in 1..Len(df.rows) |-> df.rows[i][c]]

\* Series.mean(), as the exact ratio sum / count
Mean(values) == [sum |-> Sum(values), count |-> Len(values)]

\* today in hist_df['date'].values
DateRecorded(df, day) == \E i \in 1..Len(df.rows) : df.rows[i]["date"] = day

\* AlreadyRecorded looking at the last record only.
AlreadyRecordedLast(df, day) ==
    ~IsEmpty(df) /\ df.rows[Len(df.rows)]["date"] = day

\* if not hist_df.empty and today in hist_df['date'].values
AlreadyRecorded(df, day) == ~IsEmpty(df) /\ DateRecorded(df, day)

\* NewRow counting the distinct track ids instead of the rows.
NewRowDistinctIds(day, info, df) ==
    DataFrame(HistColumns,
              <<[date |-> day,
                 saves |-> info.followers.total,
                 total_tracks |-> Cardinality(Range(Column(df, "track_id"))),
                 avg_popularity |-> Mean(Column(df, "popularity"))]>>)

\* new_row = pd.DataFrame([{..}])
NewRow(day, info, df) ==
    DataFrame(HistColumns,
              <<[date |-> day,
                 saves |-> info.followers.total,
                 total_tracks |-> Len(df.rows),
                 avg_popularity |-> Mean(Column(df, "popularity"))]>>)

TodayColumns == <<"track_id", "name", "artist", "popularity">>

\* today_tracks = tracks_df[[..]].copy(); today_tracks['date'] = today
TodayTracks(day, df) ==
    LET selected == Project(df, TodayColumns)
    IN  DataFrame(selected.columns \o <<"date">>,
                  [i \in 1..Len(selected.rows) |->
                      [c \in Range(selected.columns) \cup {"date"} |->
                          IF c = "date" THEN day ELSE selected.rows[i][c]]])

----------------------------------------------------------------------------
(* main, tab 1: the growth columns and the growth metrics                  *)

Before(a, b) == a.date < b.date \/ (a.date = b.date /\ a.tod < b.tod)

Without(s, i) == [j \in 1..(Len(s) - 1) |-> IF j < i THEN s[j] ELSE s[j + 1]]

\* SortValues leaving the rows in the order of the file.
SortValuesOmitted(rows) == rows

\* hist_df.sort_values('date'): the rows by ascending date.
RECURSIVE SortValues(_)
SortValues(rows) ==
    IF rows = <<>>
    THEN <<>>
    ELSE LET first == CHOOSE i \in 1..Len(rows) :
                          \A j \in 1..Len(rows) :
                              /\ ~Before(rows[j]["date"], rows[i]["date"])
                              /\ rows[j]["date"] = rows[i]["date"] => i <= j
         IN  <<rows[first]>> \o SortValues(Without(rows, first))

\* A value of a numeric column that may be missing: <<>> is NaN, <<v>> is v.
Ratio(num, den) == [num |-> num, den |-> den]

\* Series.diff(): NaN first, then the difference to the row before.
Diff(values) ==
    [i \in 1..Len(values) |-> IF i = 1 THEN <<>> ELSE <<values[i] - values[i - 1]>>]

\* Series.pct_change() * 100: NaN first, then the exact ratio.
PctChange100(values) ==
    [i \in 1..Len(values) |->
        IF i = 1 THEN <<>>
        ELSE <<Ratio(100 * (values[i] - values[i - 1]), values[i - 1])>>]

\* Series.fillna(value)
FillNa(values, value) ==
    [i \in 1..Len(values) |-> IF values[i] = <<>> THEN value ELSE values[i][1]]

\* df[c] = values
WithColumn(df, c, values) ==
    DataFrame(IF c \in Range(df.columns) THEN df.columns ELSE df.columns \o <<c>>,
              [i \in 1..Len(df.rows) |->
                  [k \in DOMAIN df.rows[i] \cup {c} |->
                      IF k = c THEN values[i] ELSE df.rows[i][k]]])

\* lines 160-162: the table by date, with daily_growth and growth_rate
GrowthColumns(df) ==
    LET sorted == DataFrame(df.columns, SortValues(df.rows))
        daily == WithColumn(sorted, "daily_growth",
                            FillNa(Diff(Column(sorted, "saves")), 0))
    IN  WithColumn(daily, "growth_rate",
                   FillNa(PctChange100(Column(sorted, "saves")), 0))

\* line 232: hist_df['saves'].iloc[-1] - hist_df['saves'].iloc[0]
total_growth(df) == df.rows[Len(df.rows)]["saves"] - df.rows[1]["saves"]

\* line 235: hist_df['daily_growth'][1:].mean()
avg_daily_growth(df) == Mean(Tail(Column(df, "daily_growth")))

\* line 241
days_tracked(df) == Len(df.rows)

----------------------------------------------------------------------------
(* The script runs                                                         *)

Ended == {"idle", "stopped", "kept", "appended", "raised", "crashed", "rendered"}
Running == {"fetch", "update", "check", "save_tracks"}

NoDay == Timestamp(0, 0)

Init ==
    /\ now \in Dates
    /\ cache = <<>>
    /\ histFile = NoFile
    /\ trackFile = NoFile
    /\ pc = [p \in Procs |-> "idle"]
    /\ fault = [p \in Procs |-> <<>>]
    /\ playlist_info = [p \in Procs |-> NoPlaylist]
    /\ tracks_df = [p \in Procs |-> NoFrame]
    /\ today = [p \in Procs |-> NoDay]
    /\ hist_df = [p \in Procs |-> NoFrame]
    /\ track_hist_df = [p \in Procs |-> NoFrame]
    /\ probe = <<>>

\* The local clock shows another date.
ClockSet(d) ==
    /\ d # now
    /\ now' = d
    /\ UNCHANGED <<cache, files, pc, fault, locals, probe>>

\* Midnight passes on a clock that runs forward. The ttl of the cache is one
\* hour: an entry fetched today may outlive midnight, an older one has expired.
Midnight ==
    /\ now < MaxDate
    /\ cache # <<>> => cache[1].fetched_on = now
    /\ now' = now + 1
    /\ UNCHANGED <<cache, files, pc, fault, locals, probe>>

\* The cached result of get_playlist_data is older than its ttl.
CacheExpire ==
    /\ cache # <<>>
    /\ cache' = <<>>
    /\ UNCHANGED <<now, files, pc, fault, locals, probe>>

\* A render or refresh of the dashboard runs main().
Run(p) ==
    /\ pc[p] \in Ended
    /\ pc' = [pc EXCEPT ![p] = "fetch"]
    /\ fault' = [fault EXCEPT ![p] = <<>>]
    /\ playlist_info' = [playlist_info EXCEPT ![p] = NoPlaylist]
    /\ tracks_df' = [tracks_df EXCEPT ![p] = NoFrame]
    /\ today' = [today EXCEPT ![p] = NoDay]
    /\ hist_df' = [hist_df EXCEPT ![p] = NoFrame]
    /\ track_hist_df' = [track_hist_df EXCEPT ![p] = NoFrame]
    /\ UNCHANGED <<now, cache, files, probe>>

\* main: playlist_info, tracks_df = get_playlist_data(sp, playlist_id), answered
\* by the cache.
GetPlaylistDataCached(p) ==
    /\ pc[p] = "fetch"
    /\ cache # <<>>
    /\ playlist_info' = [playlist_info EXCEPT ![p] = cache[1].playlist]
    /\ tracks_df' = [tracks_df EXCEPT ![p] = cache[1].tracks_df]
    /\ pc' = [pc EXCEPT ![p] = "update"]
    /\ UNCHANGED <<now, cache, files, fault, today, hist_df, track_hist_df, probe>>

\* main: the same call, run against the provider sp; an exception is reported
\* and the run stopped (st.error, st.stop).
GetPlaylistData(p, sp) ==
    /\ pc[p] = "fetch"
    /\ cache = <<>>
    /\ fault' = [fault EXCEPT ![p] = sp.failAt]
    /\ LET result == get_playlist_data(sp)
       IN  IF result.ok
           THEN /\ cache' = <<[playlist |-> result.playlist,
                               tracks_df |-> result.tracks_df,
                               fetched_on |-> now]>>
                /\ playlist_info' = [playlist_info EXCEPT ![p] = result.playlist]
                /\ tracks_df' = [tracks_df EXCEPT ![p] = result.tracks_df]
                /\ pc' = [pc EXCEPT ![p] = "update"]
           ELSE /\ pc' = [pc EXCEPT ![p] = "stopped"]
                /\ UNCHANGED <<cache, playlist_info, tracks_df>>
    /\ UNCHANGED <<now, files, today, hist_df, track_hist_df, probe>>

\* update_daily_stats, lines 85-89: today and the two loads
UpdateLoad(p, tod) ==
    /\ pc[p] = "update"
    /\ today' = [today EXCEPT ![p] = Normalize(Timestamp(now, tod))]
    /\ hist_df' = [hist_df EXCEPT ![p] = load_historical_data(histFile)]
    /\ track_hist_df' = [track_hist_df EXCEPT ![p] = load_track_history(trackFile)]
    /\ pc' = [pc EXCEPT ![p] = "check"]
    /\ UNCHANGED <<now, cache, files, fault, playlist_info, tracks_df, probe>>

\* lines 92-93: today's record exists, the loaded tables are returned
UpdateKeep(p) ==
    /\ pc[p] = "check"
    /\ AlreadyRecorded(hist_df[p], today[p])
    /\ pc' = [pc EXCEPT ![p] = "kept"]
    /\ UNCHANGED <<now, cache, files, fault, locals, probe>>

\* lines 96-101 on a frame without the column 'popularity': KeyError
UpdateRaise(p) ==
    /\ pc[p] = "check"
    /\ ~AlreadyRecorded(hist_df[p], today[p])
    /\ ~HasColumns(tracks_df[p], <<"popularity">>)
    /\ pc' = [pc EXCEPT ![p] = "raised"]
    /\ UNCHANGED <<now, cache, files, fault, locals, probe>>

\* UpdateSavePlaylist appending to the table as the file holds it at the save,
\* not as the run loaded it.
UpdateSavePlaylistReloading(p) ==
    /\ pc[p] = "check"
    /\ ~AlreadyRecorded(hist_df[p], today[p])
    /\ HasColumns(tracks_df[p], <<"popularity">>)
    /\ LET appended == Concat(load_historical_data(histFile),
                              NewRow(today[p], playlist_info[p], tracks_df[p]))
       IN  /\ hist_df' = [hist_df EXCEPT ![p] = appended]
           /\ histFile' = save_historical_data(appended)
    /\ pc' = [pc EXCEPT ![p] = "save_tracks"]
    /\ UNCHANGED <<now, cache, trackFile, fault, playlist_info, tracks_df, today,
                   track_hist_df, probe>>

\* lines 96-104: today's playlist record is appended and the table saved
UpdateSavePlaylist(p) ==
    /\ pc[p] = "check"
    /\ ~AlreadyRecorded(hist_df[p], today[p])
    /\ HasColumns(tracks_df[p], <<"popularity">>)
    /\ LET appended == Concat(hist_df[p], NewRow(today[p], playlist_info[p], tracks_df[p]))
       IN  /\ hist_df' = [hist_df EXCEPT ![p] = appended]
           /\ histFile' = save_historical_data(appended)
    /\ pc' = [pc EXCEPT ![p] = "save_tracks"]
    /\ UNCHANGED <<now, cache, trackFile, fault, playlist_info, tracks_df, today,
                   track_hist_df, probe>>

\* lines 107-113: today's track records are appended and the table saved
UpdateSaveTracks(p) ==
    /\ pc[p] = "save_tracks"
    /\ LET appended == Concat(track_hist_df[p], TodayTracks(today[p], tracks_df[p]))
       IN  /\ track_hist_df' = [track_hist_df EXCEPT ![p] = appended]
           /\ trackFile' = save_track_history(appended)
    /\ pc' = [pc EXCEPT ![p] = "appended"]
    /\ UNCHANGED <<now, cache, histFile, fault, playlist_info, tracks_df, today,
                   hist_df, probe>>

\* main, lines 158-162: with more than one record, the growth columns are
\* added to the table update_daily_stats returned.
GrowthTracking(p) ==
    /\ pc[p] \in {"kept", "appended"}
    /\ hist_df' = [hist_df EXCEPT ![p] =
                      IF Len(hist_df[p].rows) > 1
                      THEN GrowthColumns(hist_df[p])
                      ELSE hist_df[p]]
    /\ pc' = [pc EXCEPT ![p] = "rendered"]
    /\ UNCHANGED <<now, cache, files, fault, playlist_info, tracks_df, today,
                   track_hist_df, probe>>

\* The process dies, or a save fails, in the middle of a run: what the run
\* held in memory is gone, the files stay as they are.
Crash(p) ==
    /\ pc[p] \in Running
    /\ pc' = [pc EXCEPT ![p] = "crashed"]
    /\ playlist_info' = [playlist_info EXCEPT ![p] = NoPlaylist]
    /\ tracks_df' = [tracks_df EXCEPT ![p] = NoFrame]
    /\ today' = [today EXCEPT ![p] = NoDay]
    /\ hist_df' = [hist_df EXCEPT ![p] = NoFrame]
    /\ track_hist_df' = [track_hist_df EXCEPT ![p] = NoFrame]
    /\ UNCHANGED <<now, cache, files, fault, probe>>

\* One call of get_playlist_data on its own.
FetchProbe(sp) ==
    /\ probe' = <<[sp |-> sp, result |-> get_playlist_data(sp)]>>
    /\ UNCHANGED <<now, cache, files, pc, fault, locals>>

\* The run's call of get_playlist_data against one of the store playlists.
GetStorePlaylist(p) ==
    \E f \in Followers, pl \in StorePlaylists :
        \E k \in FailPoints(pl) : GetPlaylistData(p, Provider(f, pl, k))

Step(p) ==
    \/ Run(p)
    \/ GetPlaylistDataCached(p)
    \/ GetStorePlaylist(p)
    \/ \E tod \in TimesOfDay : UpdateLoad(p, tod)
    \/ UpdateKeep(p)
    \/ UpdateRaise(p)
    \/ UpdateSavePlaylist(p)
    \/ UpdateSaveTracks(p)

Environment ==
    \/ \E d \in Dates : ClockSet(d)
    \/ CacheExpire

\* One script run at a time, none cut short.
Next == Environment \/ Step(1) \/ GrowthTracking(1)

Spec == Init /\ [][Next]_vars

\* One script run at a time, followed up to the return of update_daily_stats,
\* which may be cut short anywhere.
NextCrash == Environment \/ Step(1) \/ Crash(1)

SpecCrash == Init /\ [][NextCrash]_vars

\* One script run at a time, none cut short, under a clock that runs forward.
NextMono == Midnight \/ CacheExpire \/ Step(1) \/ GrowthTracking(1)

SpecMono == Init /\ [][NextMono]_vars

\* Two script runs against the same store under a clock that runs forward,
\* their steps interleaved, up to the return of update_daily_stats; the
\* provider answers every request, with the two-page playlist.
RacePlaylist == <<<<ItemA>>, <<NoTrack, ItemB>>>>

GetRacePlaylist(p) ==
    \E f \in Followers : GetPlaylistData(p, Provider(f, RacePlaylist, <<>>))

StepConc(p) ==
    \/ Run(p)
    \/ GetPlaylistDataCached(p)
    \/ GetRacePlaylist(p)
    \/ \E tod \in TimesOfDay : UpdateLoad(p, tod)
    \/ UpdateKeep(p)
    \/ UpdateSavePlaylist(p)
    \/ UpdateSaveTracks(p)

NextConc == Midnight \/ CacheExpire \/ StepConc(1) \/ StepConc(2)

SpecConc == Init /\ [][NextConc]_vars

\* The fetch on its own, over every playlist within the bounds.
NextFetch ==
    /\ probe = <<>>
    /\ \E f \in Followers, n \in 1..MaxPages :
          \E pl \in Playlists(n) :
              \E k \in FailPoints(pl) : FetchProbe(Provider(f, pl, k))

InitFetch == Init /\ now = 1

SpecFetch == InitFetch /\ [][NextFetch]_vars

\* The growth tab on its own, over every playlist table within the bounds:
\* update_daily_stats has returned the table of a file of 1..MaxRows records
\* of distinct dates, in any order, one of them today's.
MaxRows == 3

TrendSaves == {100, 135, 150}

TrendRows ==
    {[date |-> Timestamp(d, 0), saves |-> s, total_tracks |-> 2,
      avg_popularity |-> Mean(<<50, 60>>)] : d \in 1..MaxRows, s \in TrendSaves}

TrendTables ==
    {t \in UNION {[1..k -> TrendRows] : k \in 1..MaxRows} :
        \A i, j \in 1..Len(t) : t[i]["date"] = t[j]["date"] => i = j}

InitTrend ==
    \E rows \in TrendTables : \E i \in 1..Len(rows) :
        /\ now = rows[i]["date"].date
        /\ cache = <<>>
        /\ histFile = save_historical_data(DataFrame(HistColumns, rows))
        /\ trackFile = NoFile
        /\ pc = [p \in Procs |-> IF p = 1 THEN "kept" ELSE "idle"]
        /\ fault = [p \in Procs |-> <<>>]
        /\ playlist_info = [p \in Procs |-> NoPlaylist]
        /\ tracks_df = [p \in Procs |-> NoFrame]
        /\ today = [p \in Procs |-> IF p = 1 THEN rows[i]["date"] ELSE NoDay]
        /\ hist_df = [p \in Procs |->
                         IF p = 1 THEN load_historical_data(histFile) ELSE NoFrame]
        /\ track_hist_df = [p \in Procs |-> NoFrame]
        /\ probe = <<>>

NextTrend == GrowthTracking(1)

SpecTrend == InitTrend /\ [][NextTrend]_vars

----------------------------------------------------------------------------
(* The persisted tables, as the claims read them                           *)

\* The calendar day of a persisted record: the date of its text.
DayOf(row) == row["date"][1]

RowsOn(file, day) == {i \in 1..Len(file.rows) : DayOf(file.rows[i]) = day}

DaysIn(file) == {DayOf(file.rows[i]) : i \in 1..Len(file.rows)}

\* The two tables are date-synchronized: a day has a playlist record exactly
\* when the track table holds total_tracks records of that day.
Synchronized ==
    /\ \A i \in 1..Len(histFile.rows) :
          Cardinality(RowsOn(trackFile, DayOf(histFile.rows[i])))
              = histFile.rows[i]["total_tracks"]
    /\ DaysIn(trackFile) \subseteq DaysIn(histFile)

\* C1: starting from an absent store, after any sequence of sequential runs under
\* any clock and any snapshots, the persisted playlist table holds at most one
\* record for every date.
C1_Uniqueness ==
    \A i, j \in 1..Len(histFile.rows) :
        DayOf(histFile.rows[i]) = DayOf(histFile.rows[j]) => i = j

\* C1 witness: the table holds records of two dates and a further run has found
\* its date recorded.
C1_Witness == Len(histFile.rows) = 2 /\ pc[1] = "kept"

\* A run that finds the date of its clock recorded in the persisted table.
Rerun(p) ==
    \/ pc[p] \in {"fetch", "update"} /\ now \in DaysIn(histFile)
    \/ pc[p] = "check" /\ today[p].date \in DaysIn(histFile)

\* C2: a run on a date that the playlist table already records, whatever
\* snapshot it fetched, changes neither persisted table and appends nothing: the
\* record of the first run of the day is kept.
C2_Idempotence ==
    [][\A p \in Procs :
          Rerun(p) => /\ files' = files
                      /\ pc'[p] \notin {"save_tracks", "appended", "raised"}]_vars

\* C2 witness: a run has kept the record of its date although it fetched another
\* follower count than the recorded one.
C2_Witness ==
    /\ pc[1] = "kept"
    /\ \E i \in 1..Len(histFile.rows) :
          /\ DayOf(histFile.rows[i]) = today[1].date
          /\ histFile.rows[i]["saves"] # playlist_info[1].followers.total

\* C3: whenever no run is in progress (every run so far completed), each date of
\* the playlist table has as many track records as its total_tracks says.
C3_Synchronization ==
    (\A p \in Procs : pc[p] \in Ended) =>
        \A i \in 1..Len(histFile.rows) :
            Cardinality(RowsOn(trackFile, DayOf(histFile.rows[i])))
                = histFile.rows[i]["total_tracks"]

\* C3 witness: two dates recorded, with four track records in all, and no run in
\* progress.
C3_Witness ==
    /\ \A p \in Procs : pc[p] \in Ended
    /\ Len(histFile.rows) = 2
    /\ Len(trackFile.rows) = 4

\* C4: also when a run is cut short anywhere, the two persisted tables are
\* date-synchronized once it has ended.
C4_SynchronizedUnderFailure == (\A p \in Procs : pc[p] \in Ended) => Synchronized

\* A run that found no playlist table and fetched a snapshot without tracks.
FreshEmptyRun(p) ==
    /\ IsEmpty(tracks_df[p])
    /\ \/ pc[p] = "raised" /\ IsEmpty(hist_df[p])
       \/ pc[p] = "appended" /\ Len(hist_df[p].rows) = 1

\* C5: a run on a fresh store with a snapshot of zero tracks and follower count f
\* ends without error, having persisted the one playlist record (today, f, 0, _)
\* and no track record.
C5_EmptySnapshot ==
    \A p \in Procs :
        FreshEmptyRun(p) =>
            /\ pc[p] = "appended"
            /\ Len(histFile.rows) = 1
            /\ DayOf(histFile.rows[1]) = today[p].date
            /\ histFile.rows[1]["saves"] = playlist_info[p].followers.total
            /\ histFile.rows[1]["total_tracks"] = 0
            /\ trackFile.rows = <<>>

----------------------------------------------------------------------------
(* The fetch, as the claims read it                                        *)

\* The items of all pages, in page order.
RECURSIVE Flatten(_)
Flatten(pages) ==
    IF pages = <<>> THEN <<>>
    ELSE Flatten(SubSeq(pages, 1, Len(pages) - 1)) \o pages[Len(pages)].items

IsPresent(item) == item.track # <<>>

\* C6: when no request fails, the fetch of a playlist of N >= 1 linked pages makes
\* exactly N page requests and collects the items of the pages in page order.
C6_PaginationComplete ==
    \A i \in 1..Len(probe) :
        probe[i].sp.failAt = <<>> =>
            /\ probe[i].result.ok
            /\ probe[i].result.requests = Len(probe[i].sp.pages)
            /\ probe[i].result.raw = Flatten(probe[i].sp.pages)
            /\ Len(probe[i].result.raw)
                  = Sum([k \in 1..Len(probe[i].sp.pages) |-> Len(probe[i].sp.pages[k].items)])

\* C6 witness: a fetch of two pages, the second one not empty, has succeeded.
C6_Witness ==
    /\ probe # <<>>
    /\ probe[1].result.ok
    /\ Len(probe[1].sp.pages) = MaxPages
    /\ probe[1].sp.pages[MaxPages].items # <<>>

\* C7: the normalized rows are the rows of the items whose track is present, in
\* the order of the items; an item without a track yields no row and no error.
C7_Omission ==
    \A i \in 1..Len(probe) :
        probe[i].sp.failAt = <<>> =>
            LET present == SelectSeq(Flatten(probe[i].sp.pages), IsPresent)
                rows == probe[i].result.tracks_df.rows
            IN  /\ probe[i].result.ok
                /\ Len(rows) = Len(present)
                /\ \A k \in 1..Len(present) :
                      /\ rows[k]["track_id"] = present[k].track[1].id
                      /\ rows[k]["name"] = present[k].track[1].name
                      /\ rows[k]["popularity"] = present[k].track[1].popularity

\* C7 witness: a fetched playlist had a removed track between two others.
C7_Witness ==
    /\ probe # <<>>
    /\ probe[1].result.ok
    /\ \E k \in 1..Len(probe[1].result.raw) :
          /\ ~IsPresent(probe[1].result.raw[k])
          /\ \E a \in 1..(k - 1) : IsPresent(probe[1].result.raw[a])
          /\ \E b \in (k + 1)..Len(probe[1].result.raw) : IsPresent(probe[1].result.raw[b])
    /\ Len(probe[1].result.tracks_df.rows) >= 2

\* C8: when the metadata request or a page request of a run fails, the run is
\* stopped with no fetched data, the accumulator is not run in it, and both
\* persisted tables and the cache are left as they were.
C8_ProviderFailureFatal ==
    /\ [](\A p \in Procs :
            fault[p] # <<>> =>
                /\ pc[p] = "stopped"
                /\ playlist_info[p] = NoPlaylist
                /\ tracks_df[p] = NoFrame)
    /\ [][\A p \in Procs :
            fault'[p] # <<>> => files' = files /\ cache' = cache]_vars

\* C8 witness: a run was stopped by the failure of the second page request, with
\* a playlist table already persisted.
C8_Witness == pc[1] = "stopped" /\ fault[1] = <<2>> /\ histFile.exists

\* C9: every persisted track record has exactly the declared fields, its
\* track_name being the name of the track, and the persisted track table has the
\* declared columns after every run.
C9_TrackSchema ==
    trackFile.exists =>
        /\ trackFile.columns = TrackHistColumns
        /\ \A i \in 1..Len(trackFile.rows) :
              /\ DOMAIN trackFile.rows[i] = Range(TrackHistColumns)
              /\ trackFile.rows[i]["track_name"] \in {TrackA.name, TrackB.name}

\* C10: the persisted track table holds at most one record per (date, track_id).
C10_TrackKeyUnique ==
    \A i, j \in 1..Len(trackFile.rows) :
        (/\ DayOf(trackFile.rows[i]) = DayOf(trackFile.rows[j])
         /\ trackFile.rows[i]["track_id"] = trackFile.rows[j]["track_id"]) => i = j


\* A run that update_daily_stats has returned from.
Completed == {"kept", "appended", "rendered"}

\* C11: after every completed run on date D, the first run on an absent store
\* included, the persisted playlist table holds exactly one record for D; a run
\* that appended wrote the saves and total_tracks of its own snapshot, and no
\* later step changes the date, saves or total_tracks of a persisted record, so
\* the record of D keeps the values of the first completed run on D.
C11_ExactlyOnce ==
    /\ [](\A p \in Procs :
            pc[p] \in Completed
                => Cardinality(RowsOn(histFile, today[p].date)) = 1)
    /\ [](\A p \in Procs :
            pc[p] = "appended"
                => \A i \in RowsOn(histFile, today[p].date) :
                      /\ histFile.rows[i]["saves"] = playlist_info[p].followers.total
                      /\ histFile.rows[i]["total_tracks"] = Len(tracks_df[p].rows))
    /\ [][\A i \in 1..Len(histFile.rows) :
             \E j \in 1..Len(histFile'.rows) :
                 /\ histFile'.rows[j]["date"] = histFile.rows[i]["date"]
                 /\ histFile'.rows[j]["saves"] = histFile.rows[i]["saves"]
                 /\ histFile'.rows[j]["total_tracks"] = histFile.rows[i]["total_tracks"]]_vars

\* A second run on a recorded date, given a snapshot with another follower
\* count and another number of tracks, has completed.
C11_Witness ==
    /\ pc[1] = "kept"
    /\ Len(histFile.rows) = 2
    /\ \E i \in RowsOn(histFile, today[1].date) :
          /\ histFile.rows[i]["saves"] # playlist_info[1].followers.total
          /\ histFile.rows[i]["total_tracks"] # Len(tracks_df[1].rows)


\* C12: the growth tab derives trend values only from a playlist table of at
\* least 2 records; it then holds the records of the file by ascending date,
\* daily_growth is 0 in the first row and saves[i] - saves[i-1] in every later
\* row, and the total growth is saves[last] - saves[first], the sum of the
\* daily_growth values.
C12_TrendDerivation ==
    pc[1] = "rendered" =>
        LET table == load_historical_data(histFile)
            df == hist_df[1]
            n == Len(table.rows)
            saves == Column(df, "saves")
        IN  IF n < 2
            THEN df = table
            ELSE /\ Len(df.rows) = n
                 /\ Range(Project(df, HistColumns).rows) = Range(table.rows)
                 /\ \A i \in 1..(n - 1) :
                       df.rows[i]["date"].date < df.rows[i + 1]["date"].date
                 /\ df.rows[1]["daily_growth"] = 0
                 /\ \A i \in 2..n :
                       df.rows[i]["daily_growth"] = saves[i] - saves[i - 1]
                 /\ total_growth(df) = saves[n] - saves[1]
                 /\ total_growth(df) = Sum(Column(df, "daily_growth"))

\* The file holds the records out of date order; by date the saves are 100,
\* 150, 135, the daily growth 0, 50, -15 and the total growth 35.
C12_Witness ==
    /\ pc[1] = "rendered"
    /\ DayOf(histFile.rows[1]) > DayOf(histFile.rows[Len(histFile.rows)])
    /\ Column(hist_df[1], "saves") = <<100, 150, 135>>
    /\ Column(hist_df[1], "daily_growth") = <<0, 50, -15>>
    /\ total_growth(hist_df[1]) = 35


\* Two concurrent runs on the same date have both passed the check of line 92
\* and both saved the playlist table: each loaded the table before the other
\* saved it, or it would have found the record of the date.
Raced ==
    /\ \A p \in Procs : pc[p] \in {"save_tracks", "appended"}
    /\ today[1] = today[2]

\* C13 as stated: when two concurrent runs on the same date D both pass the
\* check before either persists, the persisted playlist table holds two records
\* for D.
C13_RaceDuplicates ==
    Raced => Cardinality(RowsOn(histFile, today[1].date)) = 2

\* C13, amended: when two concurrent runs on the same date D both pass the check
\* before either persists, the persisted playlist table holds exactly one record
\* for D: the file is the table of the run that saved last, which overwrote the
\* other run's record.
C13_RaceOverwrites ==
    Raced =>
        /\ Cardinality(RowsOn(histFile, today[1].date)) = 1
        /\ \E p \in Procs : histFile = save_historical_data(hist_df[p])

\* Both runs have returned from update_daily_stats after the race, each with a
\* snapshot of its own follower count; one of the two records is not in the
\* file.
C13_Witness ==
    /\ Raced
    /\ \A p \in Procs : pc[p] = "appended"
    /\ playlist_info[1].followers.total # playlist_info[2].followers.total
    /\ \E p \in Procs : histFile # save_historical_data(hist_df[p])


\* C14: every playlist record persisted for date D is built from a snapshot
\* fetched on date D, a snapshot answered by the cache included: at the save of
\* line 104, the cache entry the run's snapshot came from was fetched on the
\* date of the record.
C14_FreshSnapshot ==
    [][\A p \in Procs :
          (pc[p] = "check" /\ pc'[p] = "save_tracks" /\ cache # <<>>)
              => cache[1].fetched_on = today[p].date]_vars


\* C15: under a clock whose date never decreases, after any sequence of
\* sequential runs the dates of the persisted playlist table are strictly
\* increasing in row order, and every save of the table adds one record at its
\* end.
C15_Chronological ==
    /\ [](\A i \in 1..(Len(histFile.rows) - 1) :
            DayOf(histFile.rows[i]) < DayOf(histFile.rows[i + 1]))
    /\ [][histFile' # histFile
            => /\ Len(histFile'.rows) = Len(histFile.rows) + 1
               /\ SubSeq(histFile'.rows, 1, Len(histFile.rows)) = histFile.rows]_vars

\* A run on a later date has appended its record to a table that held one.
C15_Witness ==
    /\ pc[1] = "appended"
    /\ Len(histFile.rows) = 2
    /\ DayOf(histFile.rows[2]) = today[1].date


IsPrefix(s, t) == Len(s) <= Len(t) /\ SubSeq(t, 1, Len(s)) = s

\* C16: every step of a sequential run leaves the persisted playlist table and
\* the persisted track table as prefixes of the tables after it (no record is
\* modified, reordered or removed), adding at most one playlist record and at
\* most one batch of track records, all of one date.
C16_AppendOnly ==
    [][/\ IsPrefix(histFile.rows, histFile'.rows)
       /\ Len(histFile'.rows) <= Len(histFile.rows) + 1
       /\ IsPrefix(trackFile.rows, trackFile'.rows)
       /\ \A i, j \in (Len(trackFile.rows) + 1)..Len(trackFile'.rows) :
             DayOf(trackFile'.rows[i]) = DayOf(trackFile'.rows[j])]_vars


\* The playlist table holds a record for day d, the track table holds no
\* record of d, and no run stands between the two saves for d: the track save
\* of d failed or was cut off.
OutOfSync(d) ==
    /\ d \in DaysIn(histFile)
    /\ RowsOn(trackFile, d) = {}
    /\ \A p \in Procs : ~(pc[p] = "save_tracks" /\ today[p].date = d)

\* C17: once the playlist table holds a record for date D while the track table
\* holds none and the track save of D has failed, every later step of every
\* later run, on D or on another date, leaves it so: the track records of D
\* are never written.
C17_NeverRepaired ==
    [][\A d \in Dates : OutOfSync(d) => OutOfSync(d)']_vars

\* The track save of date 1 was cut off; a later run has completed on date 2
\* and the track table still holds no record of date 1.
C17_Witness ==
    /\ OutOfSync(1)
    /\ pc[1] = "appended"
    /\ today[1].date = 2
    /\ RowsOn(trackFile, 2) # {}

\* C18: in a single-writer execution with a crash or a failed save allowed at
\* any point, every date that occurs in the persisted track table occurs in
\* the persisted playlist table.
C18_TrackNeverAhead == DaysIn(trackFile) \subseteq DaysIn(histFile)

\* A run was cut off between the two saves after an earlier run had completed:
\* the track table holds records, and the playlist table is a date ahead.
C18_Witness ==
    /\ pc[1] = "crashed"
    /\ DaysIn(trackFile) # {}
    /\ DaysIn(trackFile) # DaysIn(histFile)

====
